---- MODULE Spec2Model ----
(***************************************************************************)
(* The lead-capture service of server.js: the POST /api/submit handler,    *)
(* its validation, the Lead Record it builds, the two outbound sink calls  *)
(* (webhook, API) and the 8-second wait ceiling.                           *)
(*                                                                         *)
(* A string is a sequence of characters over Chars.  A field of the        *)
(* request body is either absent (undefined / null), a string, or a truthy *)
(* value that is not a string (a number, an array, an object).             *)
(*                                                                         *)
(* Node runs a callback and the promise reactions it triggers to the end   *)
(* before the next callback: each action below is one such run.            *)
(***************************************************************************)
EXTENDS Naturals, Sequences, FiniteSets

VARIABLES
    cfg,      \* WEBHOOK_URL / API_URL configured (process environment)
    pc,       \* "idle" | "waiting" (suspended at the await) | "done"
    req,      \* <<>> or <<body>>: the request body being handled
    lead,     \* <<>> or <<record>>: the Lead Record, once constructed
    calls,    \* per sink: "none" | "pending" | "2xx" | "non2xx" | "neterr"
    outbox,   \* the POSTs issued, in issue order
    timer,    \* the setTimeout of the ceiling: "unset" | "armed" | "fired"
    res,      \* the responses sent to the caller, in order
    log       \* the console lines written, in order

vars == <<cfg, pc, req, lead, calls, outbox, timer, res, log>>

----------------------------------------------------------------------------
(* Strings *)

Upper == "J"
Lower == "j"
Space == " "
At    == "@"
Dot   == "."
Chars == {Upper, Lower, Space, At, Dot}

\* Longest email string of the exhaustive validation inputs.
MaxEmailLen == 6

RECURSIVE TrimStart(_)
TrimStart(s) ==
    IF s # <<>> /\ Head(s) = Space THEN TrimStart(Tail(s)) ELSE s

RECURSIVE TrimEnd(_)
TrimEnd(s) ==
    IF s # <<>> /\ s[Len(s)] = Space
        THEN TrimEnd(SubSeq(s, 1, Len(s) - 1))
        ELSE s

\* String.prototype.trim
Trim(s) == TrimEnd(TrimStart(s))

\* String.prototype.toLowerCase
ToLowerCase(s) == [i \in 1..Len(s) |-> IF s[i] = Upper THEN Lower ELSE s[i]]

\* [^\s@]+ over s[from..to]
Plain(s, from, to) ==
    /\ from <= to
    /\ \A i \in from..to : s[i] # Space /\ s[i] # At

\* /^[^\s@]+@[^\s@]+\.[^\s@]+$/.test(s)
EmailPattern(s) ==
    \E a \in 1..Len(s) : \E d \in 1..Len(s) :
        /\ s[a] = At
        /\ s[d] = Dot
        /\ Plain(s, 1, a - 1)
        /\ Plain(s, a + 1, d - 1)
        /\ Plain(s, d + 1, Len(s))

----------------------------------------------------------------------------
(* Field values of the request body *)

Absent    == [k |-> "absent", s |-> <<>>]
NonStr    == [k |-> "other",  s |-> <<>>]
Str(s)    == [k |-> "str",    s |-> s]

IsStr(v)  == v.k = "str"
\* !v
Falsy(v)  == v.k = "absent" \/ (v.k = "str" /\ v.s = <<>>)

----------------------------------------------------------------------------
(* Responses *)

NameMsg    == "Full name is required."
EmailMsg   == "A valid email address is required."
MessageMsg == "Please include a message about your project."
AckMsg     == "Quote request submitted successfully!"
FaultMsg   == "Something went wrong. Please try again."
TypeError  == "TypeError: trim is not a function"

Bad(text) == [status |-> 400, success |-> FALSE, key |-> "error", text |-> text]
Ack       == [status |-> 200, success |-> TRUE, key |-> "message", text |-> AckMsg]

\* The catch clause's response to a fault err.
FaultResponseLeaky(err) ==
    [status |-> 500, success |-> FALSE, key |-> "error", text |-> err]

FaultResponse(err) ==
    [status |-> 500, success |-> FALSE, key |-> "error", text |-> FaultMsg]

----------------------------------------------------------------------------
(* Validation: each check passes, rejects with a message, or throws *)

Pass         == [kind |-> "pass",   text |-> ""]
Reject(text) == [kind |-> "reject", text |-> text]
Throw        == [kind |-> "throw",  text |-> TypeError]

\* A check that forgets to trim.
NameCheckNoTrim(b) ==
    IF Falsy(b.fullName) THEN Reject(NameMsg)
    ELSE IF ~IsStr(b.fullName) THEN Throw
    ELSE Pass

NameCheck(b) ==
    IF Falsy(b.fullName) THEN Reject(NameMsg)
    ELSE IF ~IsStr(b.fullName) THEN Throw
    ELSE IF Trim(b.fullName.s) = <<>> THEN Reject(NameMsg)
    ELSE Pass

EmailCheck(b) ==
    IF Falsy(b.email) THEN Reject(EmailMsg)
    ELSE IF ~IsStr(b.email) THEN Throw
    ELSE IF Trim(b.email.s) = <<>> THEN Reject(EmailMsg)
    ELSE IF ~EmailPattern(b.email.s) THEN Reject(EmailMsg)
    ELSE Pass

MessageCheck(b) ==
    IF Falsy(b.message) THEN Reject(MessageMsg)
    ELSE IF ~IsStr(b.message) THEN Throw
    ELSE IF Trim(b.message.s) = <<>> THEN Reject(MessageMsg)
    ELSE Pass

\* The checks with email tested before fullName.
ValidateEmailFirst(b) ==
    IF EmailCheck(b).kind # "pass" THEN EmailCheck(b)
    ELSE IF NameCheck(b).kind # "pass" THEN NameCheck(b)
    ELSE MessageCheck(b)

Validate(b) ==
    IF NameCheck(b).kind # "pass" THEN NameCheck(b)
    ELSE IF EmailCheck(b).kind # "pass" THEN EmailCheck(b)
    ELSE MessageCheck(b)

----------------------------------------------------------------------------
(* The Lead Record *)

\* v ? v.trim() : ""
TrimOrEmpty(v) == IF Falsy(v) THEN <<>> ELSE Trim(v.s)
\* v || ""
OrEmpty(v)     == IF Falsy(v) THEN Str(<<>>) ELSE v

\* phone.trim() / zipCode.trim() on a truthy value that is no string
BuildThrows(b) ==
    \/ (~Falsy(b.phone) /\ ~IsStr(b.phone))
    \/ (~Falsy(b.zipCode) /\ ~IsStr(b.zipCode))

BuildLead(b) ==
    [fullName  |-> Trim(b.fullName.s),
     email     |-> ToLowerCase(Trim(b.email.s)),
     phone     |-> TrimOrEmpty(b.phone),
     service   |-> OrEmpty(b.service),
     zipCode   |-> TrimOrEmpty(b.zipCode),
     financing |-> OrEmpty(b.financing),
     message   |-> Trim(b.message.s)]

----------------------------------------------------------------------------
(* Sinks *)

Sinks == {"webhook", "api"}
Outcomes == {"2xx", "non2xx", "neterr"}

\* Only the first configured sink is called before the wait.
SinkOrderSerial(c) ==
    IF c.webhook THEN <<"webhook">>
    ELSE IF c.api THEN <<"api">>
    ELSE <<>>

\* The sinks called before the wait, in the order webhookResults receives them.
SinkOrder(c) ==
    (IF c.webhook THEN <<"webhook">> ELSE <<>>)
        \o (IF c.api THEN <<"api">> ELSE <<>>)

Range(f) == {f[i] : i \in DOMAIN f}

ErrTag(s) == IF s = "webhook" THEN "[Webhook error]" ELSE "[API error]"
ErrText(s, o) ==
    IF o = "neterr" THEN "fetch failed"
    ELSE IF s = "webhook" THEN "Webhook returned non-2xx"
    ELSE "API returned non-2xx"

Settled(c) == \A s \in Sinks : c[s] # "pending"

----------------------------------------------------------------------------
(* Inputs *)

Configs == [webhook : BOOLEAN, api : BOOLEAN]

Body(n, e, m, p, sv, z, f) ==
    [fullName |-> n, email |-> e, message |-> m, phone |-> p,
     service |-> sv, zipCode |-> z, financing |-> f]

NameInputs ==
    {Absent, NonStr, Str(<<>>), Str(<<Space>>), Str(<<Upper, Space, Upper>>),
     Str(<<Space, Upper, Lower>>)}
EmailInputs ==
    {Absent, NonStr, Str(<<Space>>), Str(<<Lower, At, Lower>>),
     Str(<<Upper, At, Upper, Dot, Lower>>),
     Str(<<Upper, At, Upper, Dot, Lower, Space>>)}
MessageInputs == {Absent, NonStr, Str(<<Space>>), Str(<<Upper, Space>>)}
OptInputs     == {Absent, NonStr, Str(<<Space, Lower>>)}
PassInputs    == {Absent, Str(<<Lower>>)}

Bodies ==
    {Body(n, e, m, p, sv, z, f) :
        n \in NameInputs, e \in EmailInputs, m \in MessageInputs,
        p \in OptInputs, sv \in PassInputs, z \in {Absent, NonStr},
        f \in {Absent}}

Strings(n) == UNION {[1..k -> Chars] : k \in 0..n}

\* Every email string up to MaxEmailLen, with a few names and messages.
NameInputsV    == {Absent, NonStr, Str(<<Space>>), Str(<<Upper>>)}
EmailInputsV   == {Absent, NonStr} \cup {Str(s) : s \in Strings(MaxEmailLen)}
MessageInputsV == {Absent, Str(<<Space>>), Str(<<Upper>>)}

----------------------------------------------------------------------------
(* The program *)

Init ==
    /\ cfg \in Configs
    /\ pc = "idle"
    /\ req = <<>>
    /\ lead = <<>>
    /\ calls = [s \in Sinks |-> "none"]
    /\ outbox = <<>>
    /\ timer = "unset"
    /\ res = <<>>
    /\ log = <<>>

\* The handler from its entry to its first suspension or its response.
Handle(b) ==
    /\ pc = "idle"
    /\ req' = <<b>>
    /\ UNCHANGED cfg
    /\ LET v == Validate(b) IN
        IF v.kind = "reject" THEN
            /\ res' = Append(res, Bad(v.text))
            /\ pc' = "done"
            /\ UNCHANGED <<lead, calls, outbox, timer, log>>
        ELSE IF v.kind = "throw" \/ BuildThrows(b) THEN
            /\ log' = Append(log, [tag |-> "[Submit error]", text |-> TypeError])
            /\ res' = Append(res, FaultResponse(TypeError))
            /\ pc' = "done"
            /\ UNCHANGED <<lead, calls, outbox, timer>>
        ELSE
            LET l == BuildLead(b)
                order == SinkOrder(cfg)
            IN  /\ lead' = <<l>>
                /\ log' = Append(log, [tag |-> "[Lead received]", text |-> "email"])
                /\ outbox' = [i \in 1..Len(order) |-> [sink |-> order[i], payload |-> l]]
                /\ calls' = [s \in Sinks |->
                                IF s \in Range(order) THEN "pending" ELSE "none"]
                /\ IF Len(order) > 0
                    THEN /\ timer' = "armed"
                         /\ pc' = "waiting"
                         /\ res' = res
                    ELSE /\ timer' = timer
                         /\ pc' = "done"
                         /\ res' = Append(res, Ack)

Submit == pc = "idle" /\ \E b \in Bodies : Handle(b)

\* A failed sink call is sent again.
SinkSettleRetry(s, o) ==
    /\ calls[s] = "pending"
    /\ IF o = "2xx"
        THEN /\ calls' = [calls EXCEPT ![s] = o]
             /\ UNCHANGED <<log, outbox>>
             /\ IF pc = "waiting" /\ Settled(calls')
                 THEN pc' = "done" /\ res' = Append(res, Ack)
                 ELSE UNCHANGED <<pc, res>>
        ELSE /\ Len(outbox) < 3
             /\ log' = Append(log, [tag |-> ErrTag(s), text |-> ErrText(s, o)])
             /\ outbox' = Append(outbox, [sink |-> s, payload |-> lead[1]])
             /\ UNCHANGED <<calls, pc, res>>
    /\ UNCHANGED <<cfg, req, lead, timer>>

\* A sink failure reaches the handler's catch clause.
SinkSettleRethrow(s, o) ==
    /\ calls[s] = "pending"
    /\ calls' = [calls EXCEPT ![s] = o]
    /\ IF o = "2xx"
        THEN /\ log' = log
             /\ IF pc = "waiting" /\ Settled(calls')
                 THEN pc' = "done" /\ res' = Append(res, Ack)
                 ELSE UNCHANGED <<pc, res>>
        ELSE /\ log' = Append(log, [tag |-> ErrTag(s), text |-> ErrText(s, o)])
             /\ pc' = "done"
             /\ res' = Append(res, FaultResponse(ErrText(s, o)))
    /\ UNCHANGED <<cfg, req, lead, outbox, timer>>

\* The fetch of sink s settles with outcome o; the .catch logs a failure; when
\* this settles the last call, allSettled resolves and the handler resumes.
SinkSettle(s, o) ==
    /\ calls[s] = "pending"
    /\ calls' = [calls EXCEPT ![s] = o]
    /\ log' = IF o = "2xx" THEN log
              ELSE Append(log, [tag |-> ErrTag(s), text |-> ErrText(s, o)])
    /\ IF pc = "waiting" /\ Settled(calls')
        THEN pc' = "done" /\ res' = Append(res, Ack)
        ELSE UNCHANGED <<pc, res>>
    /\ UNCHANGED <<cfg, req, lead, outbox, timer>>

Settle == \E s \in Sinks : \E o \in Outcomes : SinkSettle(s, o)

\* The ceiling never resumes the handler.
TimerFireNoResume ==
    /\ timer = "armed"
    /\ timer' = "fired"
    /\ UNCHANGED <<cfg, pc, req, lead, calls, outbox, res, log>>

\* The ceiling aborts the calls still in flight.
TimerFireAbort ==
    /\ timer = "armed"
    /\ timer' = "fired"
    /\ calls' = [s \in Sinks |-> IF calls[s] = "pending" THEN "neterr" ELSE calls[s]]
    /\ IF pc = "waiting"
        THEN pc' = "done" /\ res' = Append(res, Ack)
        ELSE UNCHANGED <<pc, res>>
    /\ UNCHANGED <<cfg, req, lead, outbox, log>>

\* The ceiling's callback responds whether or not the handler already has.
TimerFireAlways ==
    /\ timer = "armed"
    /\ timer' = "fired"
    /\ pc' = "done"
    /\ res' = Append(res, Ack)
    /\ UNCHANGED <<cfg, req, lead, calls, outbox, log>>

\* The 8000 ms timer fires: the race resolves and a waiting handler resumes.
TimerFire ==
    /\ timer = "armed"
    /\ timer' = "fired"
    /\ IF pc = "waiting"
        THEN pc' = "done" /\ res' = Append(res, Ack)
        ELSE UNCHANGED <<pc, res>>
    /\ UNCHANGED <<cfg, req, lead, calls, outbox, log>>

Next == Submit \/ Settle \/ TimerFire

Spec == Init /\ [][Next]_vars

\* A timer set with setTimeout fires; a sink need never answer.
FairSpec == Spec /\ WF_vars(TimerFire)

\* Validation alone: no sink configured, every email string.
InitV == Init /\ cfg = [webhook |-> FALSE, api |-> FALSE]

SubmitV ==
    /\ pc = "idle"
    /\ \E n \in NameInputsV : \E e \in EmailInputsV : \E m \in MessageInputsV :
            Handle(Body(n, e, m, Absent, Absent, Absent, Absent))

SpecV == InitV /\ [][SubmitV]_vars

----------------------------------------------------------------------------
(* Properties *)

Blank(v)    == Falsy(v) \/ (IsStr(v) /\ Trim(v.s) = <<>>)
Textual(v)  == v.k # "other"
Posts(s)    == {i \in DOMAIN outbox : outbox[i].sink = s}
Failed(s)   == calls[s] \in {"non2xx", "neterr"}
Fault500    == [status |-> 500, success |-> FALSE, key |-> "error", text |-> FaultMsg]

\* C1: once validation has passed and the Lead Record is built, the only
\* response the caller ever gets is the fixed 200 acknowledgment, for every
\* sink configuration and every outcome of every sink call; it is missing only
\* while the handler still waits on a pending call with the ceiling not fired.
C1_AckWhateverSinksDo ==
    lead # <<>> =>
        /\ res \in {<<>>, <<Ack>>}
        /\ res = <<>> => (pc = "waiting" /\ ~Settled(calls) /\ timer = "armed")
        /\ (~cfg.webhook /\ ~cfg.api) => res = <<Ack>>
        /\ Settled(calls) => res = <<Ack>>

C1_Witness ==
    /\ cfg.webhook /\ cfg.api
    /\ calls["webhook"] = "non2xx"
    /\ calls["api"] = "neterr"
    /\ res = <<Ack>>

\* C2: the wait ends at the earlier of all calls settled and the ceiling: the
\* handler waits only while a call is pending and the timer is armed, it is
\* never waiting once the timer has fired, and a waiting handler always
\* eventually acknowledges.
C2_WaitEndsAtCeiling ==
    /\ [](pc = "waiting" => (timer = "armed" /\ ~Settled(calls)))
    /\ [](timer = "fired" => (pc = "done" /\ res = <<Ack>>))
    /\ (pc = "waiting" ~> res = <<Ack>>)

C2_Witness ==
    /\ timer = "fired"
    /\ calls["webhook"] = "pending"
    /\ calls["api"] = "pending"
    /\ res = <<Ack>>

\* C3: a request whose fullName is missing or blank after trimming is answered
\* 400 "Full name is required." and no sink call is issued for it, whatever the
\* other fields and the configured sinks.
C3_BlankNameNoSinkCall ==
    (req # <<>> /\ Blank(req[1].fullName)) =>
        /\ res = <<Bad(NameMsg)>>
        /\ outbox = <<>>
        /\ \A s \in Sinks : calls[s] = "none"
        /\ timer = "unset"

C3_Witness ==
    /\ req # <<>>
    /\ req[1].fullName = Str(<<Space>>)
    /\ req[1].email = Str(<<Upper, At, Upper, Dot, Lower>>)
    /\ req[1].message = Str(<<Upper, Space>>)
    /\ cfg.webhook /\ cfg.api
    /\ res = <<Bad(NameMsg)>>

\* The 400 error the ordered checks assign to a body of string-or-absent
\* fields ("" when none fails).
FirstFailure(b) ==
    IF Blank(b.fullName) THEN NameMsg
    ELSE IF Blank(b.email) \/ ~EmailPattern(b.email.s) THEN EmailMsg
    ELSE IF Blank(b.message) THEN MessageMsg
    ELSE ""

\* C4: for a body whose fullName, email and message are strings or absent, the
\* checks run in the order fullName, email, message and the first failing one
\* alone decides the 400 error; a body failing none gets no validation error.
C4_FirstFailureWins ==
    (/\ req # <<>>
     /\ Textual(req[1].fullName)
     /\ Textual(req[1].email)
     /\ Textual(req[1].message)) =>
        IF FirstFailure(req[1]) = ""
            THEN res = <<Ack>>
            ELSE res = <<Bad(FirstFailure(req[1]))>>

C4_Witness ==
    /\ req # <<>>
    /\ req[1].fullName = Str(<<Upper>>)
    /\ req[1].email = Str(<<Lower, At, At, Lower, Dot, Lower>>)
    /\ req[1].message = Str(<<Space>>)
    /\ res = <<Bad(EmailMsg)>>

\* C5: a body with non-blank fullName and message whose email has the
\* local@domain.tld shape apart from letter case and surrounding whitespace is
\* valid, and its Lead Record carries the trimmed lower-cased email and the
\* trimmed name.
C5_PaddedEmailAccepted ==
    (/\ req # <<>>
     /\ IsStr(req[1].fullName) /\ ~Blank(req[1].fullName)
     /\ IsStr(req[1].message) /\ ~Blank(req[1].message)
     /\ IsStr(req[1].email)
     /\ EmailPattern(Trim(req[1].email.s))) =>
        /\ lead # <<>>
        /\ lead[1].email = ToLowerCase(Trim(req[1].email.s))
        /\ lead[1].fullName = Trim(req[1].fullName.s)
        /\ res = <<Ack>>

\* C6: the ceiling firing cancels no call (every call is as it was, a pending
\* one still pending); after the response a pending call may still settle
\* either way, and such a late settlement changes only the call's state and,
\* on failure, the log: the response is never altered or sent again.
C6_CeilingCancelsNothing ==
    [][/\ (timer = "armed" /\ timer' = "fired") => calls' = calls
       /\ (res # <<>> /\ calls' # calls) =>
            /\ res' = res
            /\ pc' = pc
            /\ outbox' = outbox
            /\ \E s \in Sinks :
                /\ calls[s] = "pending"
                /\ calls'[s] \in Outcomes
                /\ \A u \in Sinks \ {s} : calls'[u] = calls[u]
                /\ log' = IF calls'[s] = "2xx" THEN log
                          ELSE Append(log, [tag |-> ErrTag(s),
                                            text |-> ErrText(s, calls'[s])])
      ]_vars

C6_Witness ==
    /\ timer = "fired"
    /\ res = <<Ack>>
    /\ calls["webhook"] = "pending"
    /\ calls["api"] = "non2xx"
    /\ log[Len(log)].tag = "[API error]"

\* C7: with both sinks configured, both POSTs of a valid request are issued
\* before the handler waits on either: whenever the Lead Record exists both
\* calls have been issued, whatever the state of the other call (pending,
\* failed or succeeded).
C7_BothIssuedBeforeWait ==
    (cfg.webhook /\ cfg.api /\ lead # <<>>) =>
        /\ Len(outbox) = 2
        /\ outbox[1] = [sink |-> "webhook", payload |-> lead[1]]
        /\ outbox[2] = [sink |-> "api", payload |-> lead[1]]
        /\ \A s \in Sinks : calls[s] # "none"

C7_Witness ==
    /\ cfg.webhook /\ cfg.api
    /\ pc = "waiting"
    /\ calls["webhook"] = "pending"
    /\ calls["api"] = "neterr"

\* Whether handling body b throws before a response is sent: a truthy
\* non-string is reached by a .trim() call before any check rejects.
Good(v) == IsStr(v) /\ ~Blank(v)
Faults(b) ==
    \/ ~Textual(b.fullName)
    \/ (Good(b.fullName) /\ ~Textual(b.email))
    \/ (/\ Good(b.fullName)
        /\ Good(b.email) /\ EmailPattern(b.email.s)
        /\ (\/ ~Textual(b.message)
            \/ (Good(b.message) /\ (~Textual(b.phone) \/ ~Textual(b.zipCode)))))

\* C8: a fault thrown in the handler before a response is answered with status
\* 500 and the fixed body; the error is logged, is not in the response, and the
\* request does not end without a response.
C8_FaultAnswered500 ==
    /\ (req # <<>> /\ Faults(req[1])) =>
        /\ res = <<Fault500>>
        /\ log = <<[tag |-> "[Submit error]", text |-> TypeError]>>
        /\ res[1].text # TypeError
    /\ pc = "done" => Len(res) = 1

C8_Witness ==
    /\ req # <<>>
    /\ Validate(req[1]).kind = "pass"
    /\ req[1].phone = NonStr
    /\ res = <<Fault500>>

\* C9: no sink delivery is retried: each configured sink gets at most one POST
\* per request, and a sink whose call failed has exactly its one POST and one
\* logged error.
C9_NoRetry ==
    \A s \in Sinks :
        /\ Cardinality(Posts(s)) <= 1
        /\ calls[s] # "none" => Cardinality(Posts(s)) = 1
        /\ Failed(s) =>
            Cardinality({i \in DOMAIN log : log[i].tag = ErrTag(s)}) = 1

C9_Witness ==
    /\ Failed("webhook")
    /\ Failed("api")
    /\ pc = "done"
    /\ Len(outbox) = 2

\* C10: every request gets exactly one response in every interleaving: never a
\* second one, a sent response is never changed, the handler is finished
\* exactly when one response has been sent, and a request always gets one.
C10_ExactlyOneResponse ==
    /\ [](Len(res) <= 1)
    /\ [](pc = "done" <=> Len(res) = 1)
    /\ [][res # <<>> => res' = res]_vars
    /\ (req # <<>> ~> Len(res) = 1)

C10_Witness ==
    /\ timer = "fired"
    /\ Failed("webhook")
    /\ Failed("api")
    /\ Len(res) = 1

====
